---- MODULE Spec2Model ----
(***************************************************************************)
(* Model of sls_memory/client.py: the synchronous facade SLSMemoryClient   *)
(* and the suspend-point facade AsyncSLSMemoryClient in front of the SLS   *)
(* backend client.                                                         *)
(*                                                                         *)
(* One client of each facade is constructed with the same project and      *)
(* memory_store.  An invocation (inp) is handed to both; each facade runs  *)
(* its own method on it, step by step: a step runs the method's code up to *)
(* its next backend call, or to its return or raise.  The backend is       *)
(* external: its reply to the k-th call of an invocation is chosen freely  *)
(* the first time a facade issues a k-th call and recorded in script, so   *)
(* that the other facade meets the same backend.                           *)
(*                                                                         *)
(* Python values are tagged records: None, str, bool, int, dict, list and  *)
(* SDK model objects.  Texts that the code searches (str(e)) are sequences *)
(* of words, and a substring is a contiguous run of words.                 *)
(***************************************************************************)
EXTENDS Integers, Sequences, FiniteSets, TLC

\* Largest number of entries in a results list of a backend response body.
MaxResults == 2

Facades == {"sync", "async"}

-----------------------------------------------------------------------------
(* Python values *)

None == [t |-> "None"]
Str(s) == [t |-> "str", v |-> s]
Bool(b) == [t |-> "bool", v |-> b]
Num(n) == [t |-> "int", v |-> n]
Dict(m) == [t |-> "dict", v |-> m]
List(s) == [t |-> "list", v |-> s]
\* An SDK model object (a TeaModel): it has a to_map method.
Model(m) == [t |-> "model", v |-> m]
\* A keyword argument the caller did not pass.
Absent == [t |-> "absent"]

EmptyMap == [k \in {} |-> None]

\* Python truthiness, as `not x` and `if x` use it.
Truthy(x) ==
    CASE x.t = "None" -> FALSE
      [] x.t = "str" -> x.v # ""
      [] x.t = "bool" -> x.v
      [] x.t = "int" -> x.v # 0
      [] x.t = "dict" -> DOMAIN x.v # {}
      [] x.t = "list" -> Len(x.v) > 0
      [] OTHER -> TRUE

-----------------------------------------------------------------------------
(* Errors *)

ValidationError(msg) == [type |-> "ValidationError", text |-> <<msg>>]
\* What Python raises when a method is called with a keyword it does not declare.
TypeError(msg) == [type |-> "TypeError", text |-> <<msg>>]
\* An exception raised by the backend client; text is str(e), as words.
BackendError(words) == [type |-> "BackendError", text |-> words]

\* The marker the recovery path searches str(e) for.
ProjectNotExistMarker == <<"Project", "Not", "Exist">>

\* Python's `needle in haystack` on texts.
Contains(haystack, needle) ==
    \E i \in 0..(Len(haystack) - Len(needle)) :
        \A j \in 1..Len(needle) : haystack[i + j] = needle[j]

\* A plausible slip: the error text compared for equality with the marker.
IsProjectNotExist_Equal(e) == e.text = ProjectNotExistMarker

\* A plausible slip: any error at all starts the recovery.
IsProjectNotExist_Always(e) == TRUE

\* `"ProjectNotExist" not in str(e)` negated: the error is a project-not-exist signal.
IsProjectNotExist(e) == Contains(e.text, ProjectNotExistMarker)

-----------------------------------------------------------------------------
(* Backend replies *)

Response(status, headers, body) ==
    [ok |-> TRUE, status_code |-> status, headers |-> headers, body |-> body,
     error |-> None]
Failure(e) ==
    [ok |-> FALSE, status_code |-> None, headers |-> None, body |-> None,
     error |-> e]

Headers1 == Dict([x \in {"x-log-requestid"} |-> Str("r1")])
Headers2 == Dict([x \in {"x-log-requestid"} |-> Str("r2")])

BackendErrors ==
    { BackendError(<<"Project", "Not", "Exist">>),
      BackendError(<<"Error", "Project", "Not", "Exist", "p">>),
      BackendError(<<"Unauthorized">>),
      BackendError(<<"Not", "Exist", "Project">>),
      BackendError(<<"Project", "Already", "Exist">>) }

Failures == { Failure(e) : e \in BackendErrors }

\* Replies without a body: status_code and headers only.
StatusReplies ==
    { Response(Num(200), Headers1, None), Response(Num(201), Headers2, None) }

-----------------------------------------------------------------------------
(* Result Flattener *)

\* TeaModel.to_map of the backend SDK: the object's fields as a plain dict.
to_map(obj) == Dict(obj.v)

\* _convert_memory_result: to_map() when the object has it, else dict(result)
\* when result is truthy, else {}.
convert_memory_result(result) ==
    IF result.t = "model" THEN to_map(result)
    ELSE IF Truthy(result) THEN Dict(result.v) ELSE Dict(EmptyMap)

\* A plausible slip: the list is built back to front.
convert_results_list_Reversed(results) ==
    IF Truthy(results)
    THEN List([i \in 1..Len(results.v) |->
                 convert_memory_result(results.v[Len(results.v) + 1 - i])])
    ELSE List(<< >>)

\* _convert_results_list: each element converted, in order; [] when falsy.
convert_results_list(results) ==
    IF Truthy(results)
    THEN List([i \in 1..Len(results.v) |-> convert_memory_result(results.v[i])])
    ELSE List(<< >>)

-----------------------------------------------------------------------------
(* Input Normalizer *)

\* A plausible slip: the default is dropped and a missing key gives None.
DictGet_NoDefault(d, key, default) == IF key \in DOMAIN d.v THEN d.v[key] ELSE None

\* dict.get(key, default)
DictGet(d, key, default) == IF key \in DOMAIN d.v THEN d.v[key] ELSE default

\* sls_models.AddMemoriesRequestMessages(role=..., content=...)
AddMemoriesRequestMessages(role, content) == [role |-> role, content |-> content]

Ok(v) == [ok |-> TRUE, value |-> v, error |-> None]
Err(e) == [ok |-> FALSE, value |-> None, error |-> e]

\* What Python raises for msg.get when msg is not a dict.
AttributeError(msg) == [type |-> "AttributeError", text |-> <<msg>>]

\* A plausible slip: the string is tested for truth, so "" is turned away.
prepare_messages_EmptyRejected(messages) ==
    LET msgs == IF messages.t = "str"
                THEN <<Dict([role |-> Str("user"), content |-> messages])>>
                ELSE IF messages.t = "dict" THEN <<messages>>
                ELSE IF messages.t = "list" THEN messages.v
                ELSE << >>
    IN  IF messages.t \notin {"str", "dict", "list"} \/ messages = Str("")
        THEN Err(ValidationError("messages must be str, dict, or list[dict]"))
        ELSE IF \E i \in 1..Len(msgs) : msgs[i].t # "dict"
        THEN Err(AttributeError("object has no attribute 'get'"))
        ELSE Ok([i \in 1..Len(msgs) |->
                   AddMemoriesRequestMessages(
                       DictGet(msgs[i], "role", Str("user")),
                       DictGet(msgs[i], "content", Str("")))])

\* A plausible slip: each message is put in front of the ones before it.
prepare_messages_Reversed(messages) ==
    LET msgs == IF messages.t = "str"
                THEN <<Dict([role |-> Str("user"), content |-> messages])>>
                ELSE IF messages.t = "dict" THEN <<messages>>
                ELSE IF messages.t = "list" THEN messages.v
                ELSE << >>
    IN  IF messages.t \notin {"str", "dict", "list"}
        THEN Err(ValidationError("messages must be str, dict, or list[dict]"))
        ELSE IF \E i \in 1..Len(msgs) : msgs[i].t # "dict"
        THEN Err(AttributeError("object has no attribute 'get'"))
        ELSE Ok([i \in 1..Len(msgs) |->
                   AddMemoriesRequestMessages(
                       DictGet(msgs[Len(msgs) + 1 - i], "role", Str("user")),
                       DictGet(msgs[Len(msgs) + 1 - i], "content", Str("")))])

\* _prepare_messages: the list of request messages, or the error raised.
prepare_messages(messages) ==
    LET msgs == IF messages.t = "str"
                THEN <<Dict([role |-> Str("user"), content |-> messages])>>
                ELSE IF messages.t = "dict" THEN <<messages>>
                ELSE IF messages.t = "list" THEN messages.v
                ELSE << >>
    IN  IF messages.t \notin {"str", "dict", "list"}
        THEN Err(ValidationError("messages must be str, dict, or list[dict]"))
        ELSE IF \E i \in 1..Len(msgs) : msgs[i].t # "dict"
        THEN Err(AttributeError("object has no attribute 'get'"))
        ELSE Ok([i \in 1..Len(msgs) |->
                   AddMemoriesRequestMessages(
                       DictGet(msgs[i], "role", Str("user")),
                       DictGet(msgs[i], "content", Str("")))])

-----------------------------------------------------------------------------
(* Arguments the caller may give *)

ProjectNames == {"proj-a"}
StoreNames == {"store-a"}

\* The Config object: credentials and endpoint, never looked into by the client.
Config1 == [t |-> "Config"]

\* What the caller may give to the constructor: each name given, empty or None.
ConstructorArgs ==
    [config : {Config1},
     project : {None, Str("")} \cup { Str(p) : p \in ProjectNames },
     memory_store : {None, Str("")} \cup { Str(s) : s \in StoreNames }]

Metadata1 == Dict([source |-> Str("chat")])

\* user_id, agent_id, app_id, run_id: each absent (None) or given, independently.
FilterArgs ==
    [user_id : {None, Str("u1")}, agent_id : {None, Str("a1")},
     app_id : {None, Str("ap1")}, run_id : {None, Str("r1")}]

\* A few of them, for the operations that take many other arguments.
SomeFilterArgs ==
    { x \in FilterArgs :
        \/ x.agent_id = None /\ x.app_id = None /\ x.run_id = None
        \/ x.user_id # None /\ x.agent_id # None /\ x.app_id # None /\ x.run_id # None }

MemoryIds == {None, Str(""), Str("m1")}

Message1 == Dict([role |-> Str("assistant"), content |-> Str("hello")])
Message2 == Dict([content |-> Str("no role")])
Message3 == Dict([role |-> Str("system")])

MessagesArgs ==
    { Str("I love tennis"), Str(""), Message1, Message2, Message3, Dict(EmptyMap),
      List(<< >>), List(<<Message1, Message2>>), List(<<Message3, Message3>>),
      List(<<Message1, Str("plain")>>), Num(42), None }

AddArgs ==
    { [messages |-> m, user_id |-> x.user_id, agent_id |-> x.agent_id,
       app_id |-> x.app_id, run_id |-> x.run_id, metadata |-> md,
       infer |-> Bool(inf), custom_instructions |-> ci, async_mode |-> Bool(am)] :
        m \in MessagesArgs, x \in SomeFilterArgs, md \in {None, Metadata1},
        inf \in BOOLEAN, ci \in {Absent, Str("be brief")}, am \in BOOLEAN }

GetArgs == [memory_id : MemoryIds]

GetAllArgs ==
    { [user_id |-> x.user_id, agent_id |-> x.agent_id, app_id |-> x.app_id,
       run_id |-> x.run_id, limit |-> l] :
        x \in FilterArgs, l \in {None, Num(10)} }

SearchArgs ==
    { [query |-> q, user_id |-> x.user_id, agent_id |-> x.agent_id,
       app_id |-> x.app_id, run_id |-> x.run_id, top_k |-> k, rerank |-> Bool(rr)] :
        q \in {None, Str(""), Str("tennis")}, x \in SomeFilterArgs,
        k \in {None, Num(5)}, rr \in BOOLEAN }

UpdateArgs ==
    [memory_id : MemoryIds, text : {None, Str(""), Str("new text")},
     metadata : {None, Dict(EmptyMap), Metadata1}]

DeleteAllArgs == FilterArgs

CreateMemoryStoreArgs ==
    { [description |-> d, custom_instructions |-> None, enable_graph |-> Bool(g),
       strategy |-> Str("default"), short_term_ttl |-> Num(7)] :
        d \in {None, Str("user memories")}, g \in BOOLEAN }

UpdateMemoryStoreArgs ==
    { [description |-> d, custom_instructions |-> None, enable_graph |-> g,
       strategy |-> None, short_term_ttl |-> ttl] :
        d \in {None, Str("updated")}, g \in {None, Bool(TRUE)},
        ttl \in {None, Num(3600)} }

NoArgs == { [none |-> None] }

\* __aexit__ is handed the exception that left the scope, or three None.
AexitArgs ==
    { [exc_type |-> None, exc_val |-> None, exc_tb |-> None],
      [exc_type |-> Str("RuntimeError"), exc_val |-> Str("boom"),
       exc_tb |-> [t |-> "traceback"]] }

Invocation(op, args) == { [op |-> op, a |-> a] : a \in args }

Inputs ==
    Invocation("add", AddArgs) \cup Invocation("get", GetArgs)
    \cup Invocation("get_all", GetAllArgs) \cup Invocation("search", SearchArgs)
    \cup Invocation("update", UpdateArgs) \cup Invocation("delete", GetArgs)
    \cup Invocation("delete_all", DeleteAllArgs) \cup Invocation("history", GetArgs)
    \cup Invocation("create_memory_store", CreateMemoryStoreArgs)
    \cup Invocation("describe_memory_store", NoArgs)
    \cup Invocation("update_memory_store", UpdateMemoryStoreArgs)
    \cup Invocation("delete_memory_store", NoArgs)
    \cup Invocation("aenter", NoArgs) \cup Invocation("aexit", AexitArgs)

-----------------------------------------------------------------------------
(* What the backend may reply *)

RECURSIVE SeqsUpTo(_, _)
\* The sequences over S of length at most n.
SeqsUpTo(S, n) ==
    IF n = 0 THEN { << >> }
    ELSE LET shorter == SeqsUpTo(S, n - 1)
         IN  shorter \cup { Append(q, x) : q \in { r \in shorter : Len(r) = n - 1 }, x \in S }

Record1 == [id |-> Str("m1"), memory |-> Str("likes tennis")]
Record2 == [id |-> Str("m2"), memory |-> Str("lives in Hangzhou")]

\* Entries of a results list: a typed object, a plain mapping, a null entry.
ResultEntries == { Model(Record1), Dict(Record2), None }

ResultLists == { List(q) : q \in SeqsUpTo(ResultEntries, MaxResults) }

\* Failures of the calls that have no recovery path.
SomeFailures ==
    { Failure(BackendError(<<"Unauthorized">>)),
      Failure(BackendError(<<"Project", "Not", "Exist">>)) }

\* get_memories, search_memories: a body with a results field, or none.
ResultsReplies ==
    { Response(Num(200), Headers1, None),
      Response(Num(200), Headers1, Model([results |-> None])) }
    \cup { Response(Num(200), Headers1, Model([results |-> l])) : l \in ResultLists }

\* add_memories, get_memory, get_memory_store: a body object or mapping, or none.
BodyReplies ==
    { Response(Num(200), Headers1, b) :
        b \in { None, Model(Record1), Dict(Record2), Dict(EmptyMap),
                Model([results |-> List(<<Dict(Record1)>>)]) } }

\* get_memory_history: a list of entries, or none.
HistoryReplies ==
    { Response(Num(200), Headers1, None) }
    \cup { Response(Num(200), Headers1, l) : l \in ResultLists }

Replies(api) ==
    CASE api \in {"create_memory_store", "create_project"} -> StatusReplies \cup Failures
      [] api \in {"get_memories", "search_memories"} -> ResultsReplies \cup SomeFailures
      [] api \in {"add_memories", "get_memory", "get_memory_store"} ->
             BodyReplies \cup SomeFailures
      [] api = "get_memory_history" -> HistoryReplies \cup SomeFailures
      [] OTHER -> StatusReplies \cup SomeFailures

-----------------------------------------------------------------------------
(* State *)

VARIABLES
    backend,    \* what is known of the backend: nothing, or the projects and stores it has
    given,      \* the arguments the caller gave to the constructor of both clients
    client,     \* client[f]: the facade's client object, its _project and _memory_store
    inp,        \* the invocation handed to both facades: [op, a]
    script,     \* script[k]: the backend's reply to the k-th call of this invocation
    pc,         \* pc[f]: where facade f stands in its method
    calls,      \* calls[f]: the backend calls facade f has issued in this invocation
    request,    \* request[f]: the local variable `request` of create_memory_store
    outcome     \* outcome[f]: what the method returned or raised

vars == <<backend, given, client, inp, script, pc, calls, request, outcome>>

\* A backend of which nothing is known: any reply to any call.
AnyBackend == [stateful |-> FALSE, projects |-> {}, stores |-> {}]

\* A backend that has exactly these projects and these <<project, store>> pairs.
Backend(projects, stores) == [stateful |-> TRUE, projects |-> projects, stores |-> stores]

NoOutcome == [kind |-> "none", value |-> None, error |-> None]
Returned(v) == [kind |-> "return", value |-> v, error |-> None]
Raised(e) == [kind |-> "raise", value |-> None, error |-> e]

\* SLSClient(config): the handle on the backend.
SLSClient(config) == [t |-> "SLSClient", config |-> config]

\* __init__ of either facade: the fields it sets.
Construct(config, project, memory_store) ==
    [sls_client |-> SLSClient(config), project |-> project, memory_store |-> memory_store]

\* Both clients are constructed, from the same valid arguments.
Init ==
    /\ backend = AnyBackend
    /\ given \in { g \in ConstructorArgs : Truthy(g.project) /\ Truthy(g.memory_store) }
    /\ client = [f \in Facades |-> Construct(given.config, given.project, given.memory_store)]
    /\ inp \in Inputs
    /\ script = << >>
    /\ pc = [f \in Facades |-> "start"]
    /\ calls = [f \in Facades |-> << >>]
    /\ request = [f \in Facades |-> None]
    /\ outcome = [f \in Facades |-> NoOutcome]

\* The method raises e.
Raise(f, e) ==
    /\ pc' = [pc EXCEPT ![f] = "done"]
    /\ outcome' = [outcome EXCEPT ![f] = Raised(e)]
    /\ UNCHANGED calls

\* The method returns v.
Return(f, v) ==
    /\ pc' = [pc EXCEPT ![f] = "done"]
    /\ outcome' = [outcome EXCEPT ![f] = Returned(v)]
    /\ UNCHANGED calls

\* The method calls self._client.<api>(args) (sync) or awaits
\* self._client.<api>_async(args) (async), and goes on at `next` with the reply.
\* f is the facade, or the task when two run on one client, that makes the call.
Call(f, api, args, next) ==
    /\ calls' = [calls EXCEPT ![f] = Append(@, [api |-> api, mode |-> f, args |-> args])]
    /\ pc' = [pc EXCEPT ![f] = next]
    /\ UNCHANGED outcome

\* The call facade f is waiting on.
Pending(f) == calls[f][Len(calls[f])]

ProjectNotExist == BackendError(<<"Project", "Not", "Exist">>)
ProjectAlreadyExist == BackendError(<<"Project", "Already", "Exist">>)
MemoryStoreAlreadyExist == BackendError(<<"Memory", "Store", "Already", "Exist">>)

\* The reply of a backend that has these projects and stores to a
\* create_project or create_memory_store call.
StatefulReply(b, call) ==
    IF call.api = "create_project"
    THEN IF call.args[1].project_name \in b.projects
         THEN Failure(ProjectAlreadyExist)
         ELSE Response(Num(200), Headers1, None)
    ELSE IF call.args[1] \notin b.projects
         THEN Failure(ProjectNotExist)
         ELSE IF <<call.args[1], call.args[2].name>> \in b.stores
         THEN Failure(MemoryStoreAlreadyExist)
         ELSE Response(Num(200), Headers1, None)

\* The backend after it has given reply r to the call: a call that succeeded
\* has created its project or its store.
Effect(b, call, r) ==
    IF ~b.stateful \/ ~r.ok THEN b
    ELSE IF call.api = "create_project"
    THEN [b EXCEPT !.projects = @ \cup {call.args[1].project_name}]
    ELSE [b EXCEPT !.stores = @ \cup {<<call.args[1], call.args[2].name>>}]

\* The backend's replies to the pending call.  Of a backend that has a state:
\* what the state says.  Else: the one already given to the other facade for
\* its call of the same rank, or any reply when it is the first to ask.
BackendReplies(f) ==
    IF backend.stateful
    THEN { StatefulReply(backend, Pending(f)) }
    ELSE IF Len(calls[f]) <= Len(script)
    THEN { script[Len(calls[f])] }
    ELSE Replies(Pending(f).api)

Recorded(f, r) ==
    IF backend.stateful \/ Len(calls[f]) <= Len(script) THEN script ELSE Append(script, r)

\* The backend gives reply r to the pending call of f.
Replied(f, r) ==
    /\ script' = Recorded(f, r)
    /\ backend' = Effect(backend, Pending(f), r)

\* {"status_code": response.status_code, "headers": response.headers}
status_result(response) ==
    Dict([status_code |-> response.status_code, headers |-> response.headers])

-----------------------------------------------------------------------------
(* create_memory_store: the Store Provisioner *)

CreateMemoryStoreRequest(name, a) ==
    [name |-> name, description |-> a.description,
     custom_instructions |-> a.custom_instructions, enable_graph |-> a.enable_graph,
     strategy |-> a.strategy, short_term_ttl |-> a.short_term_ttl]

CreateProjectRequest(project_name, description) ==
    [project_name |-> project_name, description |-> description]

\* create_memory_store up to its first backend call.
create_memory_store(f) ==
    /\ pc[f] = "start"
    /\ inp.op = "create_memory_store"
    /\ LET store_name == client[f].memory_store
           req == CreateMemoryStoreRequest(store_name, inp.a)
       IN  /\ request' = [request EXCEPT ![f] = req]
           /\ Call(f, "create_memory_store", <<client[f].project, req>>,
                   "create_memory_store_try")
    /\ UNCHANGED <<backend, given, client, inp, script>>

\* A plausible slip: the project is created whether or not the store call failed.
create_memory_store_except_EnsureProject(f) ==
    /\ pc[f] = "create_memory_store_try"
    /\ \E r \in BackendReplies(f) :
        /\ Replied(f, r)
        /\ IF ~r.ok /\ ~IsProjectNotExist(r.error)
           THEN Raise(f, r.error)
           ELSE Call(f, "create_project",
                     <<CreateProjectRequest(client[f].project,
                                            Str("Auto-created by SLS Memory SDK"))>>,
                     "create_project")
    /\ UNCHANGED <<given, client, inp, request>>

\* The try block's call has replied: return, re-raise, or create the project.
create_memory_store_except(f) ==
    /\ pc[f] = "create_memory_store_try"
    /\ \E r \in BackendReplies(f) :
        /\ Replied(f, r)
        /\ IF r.ok
           THEN Return(f, status_result(r))
           ELSE IF ~IsProjectNotExist(r.error)
           THEN Raise(f, r.error)
           ELSE Call(f, "create_project",
                     <<CreateProjectRequest(client[f].project,
                                            Str("Auto-created by SLS Memory SDK"))>>,
                     "create_project")
    /\ UNCHANGED <<given, client, inp, request>>

\* A plausible slip: a project that exists already is as good as one just
\* created, and the store call is made again.
create_memory_store_retry_IgnoreDuplicate(f) ==
    /\ pc[f] = "create_project"
    /\ \E r \in BackendReplies(f) :
        /\ Replied(f, r)
        /\ IF ~r.ok /\ ~Contains(r.error.text, <<"Already", "Exist">>)
           THEN Raise(f, r.error)
           ELSE Call(f, "create_memory_store", <<client[f].project, request[f]>>,
                     "create_memory_store_retry")
    /\ UNCHANGED <<given, client, inp, request>>

\* create_project has replied: its error propagates, else the store call is made again.
create_memory_store_retry(f) ==
    /\ pc[f] = "create_project"
    /\ \E r \in BackendReplies(f) :
        /\ Replied(f, r)
        /\ IF ~r.ok
           THEN Raise(f, r.error)
           ELSE Call(f, "create_memory_store", <<client[f].project, request[f]>>,
                     "create_memory_store_retry")
    /\ UNCHANGED <<given, client, inp, request>>

\* A plausible slip: a retry that fails with project-not-exist starts the recovery again.
create_memory_store_return_Loop(f) ==
    /\ pc[f] = "create_memory_store_retry"
    /\ \E r \in BackendReplies(f) :
        /\ Replied(f, r)
        /\ IF r.ok
           THEN Return(f, status_result(r))
           ELSE IF ~IsProjectNotExist(r.error)
           THEN Raise(f, r.error)
           ELSE Call(f, "create_project",
                     <<CreateProjectRequest(client[f].project,
                                            Str("Auto-created by SLS Memory SDK"))>>,
                     "create_project")
    /\ UNCHANGED <<given, client, inp, request>>

\* The retried call has replied: its error propagates, else its response is returned.
create_memory_store_return(f) ==
    /\ pc[f] = "create_memory_store_retry"
    /\ \E r \in BackendReplies(f) :
        /\ Replied(f, r)
        /\ IF ~r.ok THEN Raise(f, r.error) ELSE Return(f, status_result(r))
    /\ UNCHANGED <<given, client, inp, request>>

-----------------------------------------------------------------------------
(* The pass-through operations, each up to its backend call *)

\* Whether the call binds to add's parameters: the synchronous add declares no
\* custom_instructions parameter, the asynchronous one does.
add_accepts(f, a) == f = "async" \/ a.custom_instructions = Absent

\* sls_models.AddMemoriesRequest(...) as add builds it: the synchronous add
\* leaves custom_instructions unset.
AddMemoriesRequest(f, a, sls_messages) ==
    [messages |-> sls_messages, user_id |-> a.user_id, agent_id |-> a.agent_id,
     app_id |-> a.app_id, run_id |-> a.run_id, metadata |-> a.metadata,
     infer |-> a.infer,
     custom_instructions |->
         IF f = "async" /\ a.custom_instructions # Absent
         THEN a.custom_instructions ELSE None,
     async_mode |-> a.async_mode]

add(f) ==
    /\ pc[f] = "start"
    /\ inp.op = "add"
    /\ LET sls_messages == prepare_messages(inp.a.messages)
       IN  IF ~add_accepts(f, inp.a)
           THEN Raise(f, TypeError("unexpected keyword argument 'custom_instructions'"))
           ELSE IF ~sls_messages.ok
           THEN Raise(f, sls_messages.error)
           ELSE Call(f, "add_memories",
                     <<client[f].project, client[f].memory_store,
                       AddMemoriesRequest(f, inp.a, sls_messages.value)>>,
                     "await")
    /\ UNCHANGED <<backend, given, client, inp, script, request>>

\* A plausible slip: the presence check on memory_id is missing.
get_Unchecked(f) ==
    /\ pc[f] = "start"
    /\ inp.op = "get"
    /\ Call(f, "get_memory",
            <<client[f].project, client[f].memory_store, inp.a.memory_id>>, "await")
    /\ UNCHANGED <<backend, given, client, inp, script, request>>

get(f) ==
    /\ pc[f] = "start"
    /\ inp.op = "get"
    /\ IF ~Truthy(inp.a.memory_id)
       THEN Raise(f, ValidationError("memory_id is required"))
       ELSE Call(f, "get_memory",
                 <<client[f].project, client[f].memory_store, inp.a.memory_id>>,
                 "await")
    /\ UNCHANGED <<backend, given, client, inp, script, request>>

GetMemoriesRequest(a) ==
    [user_id |-> a.user_id, agent_id |-> a.agent_id, app_id |-> a.app_id,
     run_id |-> a.run_id, limit |-> a.limit]

get_all(f) ==
    /\ pc[f] = "start"
    /\ inp.op = "get_all"
    /\ Call(f, "get_memories",
            <<client[f].project, client[f].memory_store, GetMemoriesRequest(inp.a)>>,
            "await")
    /\ UNCHANGED <<backend, given, client, inp, script, request>>

SearchMemoriesRequest(a) ==
    [query |-> a.query, user_id |-> a.user_id, agent_id |-> a.agent_id,
     app_id |-> a.app_id, run_id |-> a.run_id, top_k |-> a.top_k,
     rerank |-> a.rerank]

\* A plausible slip: only a missing (None) query is refused, an empty one is sent.
search_NoneOnly(f) ==
    /\ pc[f] = "start"
    /\ inp.op = "search"
    /\ IF inp.a.query = None
       THEN Raise(f, ValidationError("query is required"))
       ELSE Call(f, "search_memories",
                 <<client[f].project, client[f].memory_store,
                   SearchMemoriesRequest(inp.a)>>,
                 "await")
    /\ UNCHANGED <<backend, given, client, inp, script, request>>

search(f) ==
    /\ pc[f] = "start"
    /\ inp.op = "search"
    /\ IF ~Truthy(inp.a.query)
       THEN Raise(f, ValidationError("query is required"))
       ELSE Call(f, "search_memories",
                 <<client[f].project, client[f].memory_store,
                   SearchMemoriesRequest(inp.a)>>,
                 "await")
    /\ UNCHANGED <<backend, given, client, inp, script, request>>

UpdateMemoryRequest(a) == [text |-> a.text, metadata |-> a.metadata]

\* A plausible slip: text and metadata tested for truthiness instead of None.
update_Falsy(f) ==
    /\ pc[f] = "start"
    /\ inp.op = "update"
    /\ IF ~Truthy(inp.a.memory_id)
       THEN Raise(f, ValidationError("memory_id is required"))
       ELSE IF ~Truthy(inp.a.text) /\ ~Truthy(inp.a.metadata)
       THEN Raise(f, ValidationError("Either text or metadata must be provided for update."))
       ELSE Call(f, "update_memory",
                 <<client[f].project, client[f].memory_store, inp.a.memory_id,
                   UpdateMemoryRequest(inp.a)>>,
                 "await")
    /\ UNCHANGED <<backend, given, client, inp, script, request>>

update(f) ==
    /\ pc[f] = "start"
    /\ inp.op = "update"
    /\ IF ~Truthy(inp.a.memory_id)
       THEN Raise(f, ValidationError("memory_id is required"))
       ELSE IF inp.a.text = None /\ inp.a.metadata = None
       THEN Raise(f, ValidationError("Either text or metadata must be provided for update."))
       ELSE Call(f, "update_memory",
                 <<client[f].project, client[f].memory_store, inp.a.memory_id,
                   UpdateMemoryRequest(inp.a)>>,
                 "await")
    /\ UNCHANGED <<backend, given, client, inp, script, request>>

delete(f) ==
    /\ pc[f] = "start"
    /\ inp.op = "delete"
    /\ IF ~Truthy(inp.a.memory_id)
       THEN Raise(f, ValidationError("memory_id is required"))
       ELSE Call(f, "delete_memory",
                 <<client[f].project, client[f].memory_store, inp.a.memory_id>>,
                 "await")
    /\ UNCHANGED <<backend, given, client, inp, script, request>>

DeleteMemoriesRequest(a) ==
    [user_id |-> a.user_id, agent_id |-> a.agent_id, app_id |-> a.app_id,
     run_id |-> a.run_id]

\* A plausible slip: an unscoped delete_all is turned away locally.
delete_all_Guarded(f) ==
    /\ pc[f] = "start"
    /\ inp.op = "delete_all"
    /\ IF inp.a.user_id = None /\ inp.a.agent_id = None /\ inp.a.app_id = None
            /\ inp.a.run_id = None
       THEN Raise(f, ValidationError("at least one filter is required"))
       ELSE Call(f, "delete_memories",
                 <<client[f].project, client[f].memory_store,
                   DeleteMemoriesRequest(inp.a)>>,
                 "await")
    /\ UNCHANGED <<backend, given, client, inp, script, request>>

delete_all(f) ==
    /\ pc[f] = "start"
    /\ inp.op = "delete_all"
    /\ Call(f, "delete_memories",
            <<client[f].project, client[f].memory_store, DeleteMemoriesRequest(inp.a)>>,
            "await")
    /\ UNCHANGED <<backend, given, client, inp, script, request>>

history(f) ==
    /\ pc[f] = "start"
    /\ inp.op = "history"
    /\ IF ~Truthy(inp.a.memory_id)
       THEN Raise(f, ValidationError("memory_id is required"))
       ELSE Call(f, "get_memory_history",
                 <<client[f].project, client[f].memory_store, inp.a.memory_id>>,
                 "await")
    /\ UNCHANGED <<backend, given, client, inp, script, request>>

describe_memory_store(f) ==
    /\ pc[f] = "start"
    /\ inp.op = "describe_memory_store"
    /\ Call(f, "get_memory_store", <<client[f].project, client[f].memory_store>>,
            "await")
    /\ UNCHANGED <<backend, given, client, inp, script, request>>

UpdateMemoryStoreRequest(a) ==
    [description |-> a.description, custom_instructions |-> a.custom_instructions,
     enable_graph |-> a.enable_graph, strategy |-> a.strategy,
     short_term_ttl |-> a.short_term_ttl]

update_memory_store(f) ==
    /\ pc[f] = "start"
    /\ inp.op = "update_memory_store"
    /\ Call(f, "update_memory_store",
            <<client[f].project, client[f].memory_store,
              UpdateMemoryStoreRequest(inp.a)>>,
            "await")
    /\ UNCHANGED <<backend, given, client, inp, script, request>>

delete_memory_store(f) ==
    /\ pc[f] = "start"
    /\ inp.op = "delete_memory_store"
    /\ Call(f, "delete_memory_store", <<client[f].project, client[f].memory_store>>,
            "await")
    /\ UNCHANGED <<backend, given, client, inp, script, request>>

-----------------------------------------------------------------------------
(* The pass-through operations, from the backend's reply to the return *)

\* A plausible slip: the body is flattened without looking whether there is one.
add_result_Unguarded(response) == convert_memory_result(response.body)

\* add: the flattened body, or {"results": []} without one.
add_result(response) ==
    IF Truthy(response.body)
    THEN convert_memory_result(response.body)
    ELSE Dict([results |-> List(<< >>)])

\* get, describe_memory_store: the flattened body, or {} without one.
get_result(response) ==
    IF Truthy(response.body)
    THEN convert_memory_result(response.body)
    ELSE Dict(EmptyMap)

\* response.body.results: the attribute of the body object.
body_results(body) == body.v.results

\* get_all, search: {"results": [...]}, the list converted when body and
\* body.results are both truthy.
get_all_result(response) ==
    IF Truthy(response.body) /\ Truthy(body_results(response.body))
    THEN Dict([results |-> convert_results_list(body_results(response.body))])
    ELSE Dict([results |-> List(<< >>)])

\* history: the converted list, or [] without a body.
history_result(response) ==
    IF Truthy(response.body)
    THEN convert_results_list(response.body)
    ELSE List(<< >>)

\* What the operation returns for a backend response.
Result(op, response) ==
    CASE op = "add" -> add_result(response)
      [] op \in {"get", "describe_memory_store"} -> get_result(response)
      [] op \in {"get_all", "search"} -> get_all_result(response)
      [] op = "history" -> history_result(response)
      [] OTHER -> status_result(response)

\* The single backend call of a pass-through operation has replied: its error
\* propagates, its response is shaped and returned.
backend_reply(f) ==
    /\ pc[f] = "await"
    /\ \E r \in BackendReplies(f) :
        /\ Replied(f, r)
        /\ IF ~r.ok THEN Raise(f, r.error) ELSE Return(f, Result(inp.op, r))
    /\ UNCHANGED <<given, client, inp, request>>

-----------------------------------------------------------------------------
(* The asynchronous context manager *)

\* The client object of facade f itself, as a value handed around.
Self(f) == [t |-> "client", v |-> f]

\* What Python raises for a method the class does not have.
NoSuchMethod(name) == [type |-> "AttributeError", text |-> <<name>>]

\* __aenter__: the asynchronous client returns itself; the synchronous class
\* has no such method.
aenter(f) ==
    /\ pc[f] = "start"
    /\ inp.op = "aenter"
    /\ IF f = "async" THEN Return(f, Self(f)) ELSE Raise(f, NoSuchMethod("__aenter__"))
    /\ UNCHANGED <<backend, given, client, inp, script, request>>

\* A plausible slip: leaving the scope closes the backend handle.
aexit_Close(f) ==
    /\ pc[f] = "start"
    /\ inp.op = "aexit"
    /\ IF f = "async" THEN Return(f, None) ELSE Raise(f, NoSuchMethod("__aexit__"))
    /\ client' = [client EXCEPT ![f].sls_client = IF f = "async" THEN None ELSE @]
    /\ UNCHANGED <<backend, given, inp, script, request>>

\* __aexit__: `pass`, whatever exception it is handed; the synchronous class
\* has no such method.
aexit(f) ==
    /\ pc[f] = "start"
    /\ inp.op = "aexit"
    /\ IF f = "async" THEN Return(f, None) ELSE Raise(f, NoSuchMethod("__aexit__"))
    /\ UNCHANGED <<backend, given, client, inp, script, request>>

-----------------------------------------------------------------------------
(* Specification *)

\* Both facades are through with the invocation; the caller makes another.
next_invocation ==
    /\ \A f \in Facades : pc[f] = "done"
    /\ inp' \in Inputs
    /\ script' = << >>
    /\ pc' = [f \in Facades |-> "start"]
    /\ calls' = [f \in Facades |-> << >>]
    /\ request' = [f \in Facades |-> None]
    /\ outcome' = [f \in Facades |-> NoOutcome]
    /\ UNCHANGED <<backend, given, client>>

Step(f) ==
    \/ add(f)
    \/ get(f)
    \/ get_all(f)
    \/ search(f)
    \/ update(f)
    \/ delete(f)
    \/ delete_all(f)
    \/ history(f)
    \/ create_memory_store(f)
    \/ create_memory_store_except(f)
    \/ create_memory_store_retry(f)
    \/ create_memory_store_return(f)
    \/ describe_memory_store(f)
    \/ update_memory_store(f)
    \/ delete_memory_store(f)
    \/ backend_reply(f)
    \/ aenter(f)
    \/ aexit(f)

Next == (\E f \in Facades : Step(f)) \/ next_invocation

Spec == Init /\ [][Next]_vars

-----------------------------------------------------------------------------
(* Construction *)

\* The object __init__ is handed: no attribute is set yet.
NewObject == [sls_client |-> Absent, project |-> Absent, memory_store |-> Absent]

\* The constructor raises e: the caller gets no client.
RaiseFromInit(f, e) ==
    /\ pc' = [pc EXCEPT ![f] = "no client"]
    /\ outcome' = [outcome EXCEPT ![f] = Raised(e)]
    /\ UNCHANGED client

\* A plausible slip: the backend handle is made before the names are checked.
client_init_HandleFirst(f) ==
    /\ pc[f] = "new"
    /\ IF ~Truthy(given.project) \/ ~Truthy(given.memory_store)
       THEN /\ pc' = [pc EXCEPT ![f] = "no client"]
            /\ outcome' = [outcome EXCEPT ![f] =
                               Raised(ValidationError(IF ~Truthy(given.project)
                                                      THEN "project is required"
                                                      ELSE "memory_store is required"))]
            /\ client' = [client EXCEPT ![f].sls_client = SLSClient(given.config)]
       ELSE /\ client' = [client EXCEPT ![f] = Construct(given.config, given.project,
                                                         given.memory_store)]
            /\ pc' = [pc EXCEPT ![f] = "start"]
            /\ UNCHANGED outcome
    /\ UNCHANGED <<backend, given, inp, script, calls, request>>

\* A plausible slip: the two names are stored in each other's field.
client_init_Swapped(f) ==
    /\ pc[f] = "new"
    /\ IF ~Truthy(given.project)
       THEN RaiseFromInit(f, ValidationError("project is required"))
       ELSE IF ~Truthy(given.memory_store)
       THEN RaiseFromInit(f, ValidationError("memory_store is required"))
       ELSE /\ client' = [client EXCEPT ![f] = Construct(given.config, given.memory_store,
                                                         given.project)]
            /\ pc' = [pc EXCEPT ![f] = "start"]
            /\ UNCHANGED outcome
    /\ UNCHANGED <<backend, given, inp, script, calls, request>>

\* __init__ of either facade: project and memory_store are checked, then the
\* backend handle is made and the three fields are set.
client_init(f) ==
    /\ pc[f] = "new"
    /\ IF ~Truthy(given.project)
       THEN RaiseFromInit(f, ValidationError("project is required"))
       ELSE IF ~Truthy(given.memory_store)
       THEN RaiseFromInit(f, ValidationError("memory_store is required"))
       ELSE /\ client' = [client EXCEPT ![f] = Construct(given.config, given.project,
                                                         given.memory_store)]
            /\ pc' = [pc EXCEPT ![f] = "start"]
            /\ UNCHANGED outcome
    /\ UNCHANGED <<backend, given, inp, script, calls, request>>

\* The caller is about to construct the two clients, from any arguments.
InitNew ==
    /\ backend = AnyBackend
    /\ given \in ConstructorArgs
    /\ client = [f \in Facades |-> NewObject]
    /\ inp \in Inputs
    /\ script = << >>
    /\ pc = [f \in Facades |-> "new"]
    /\ calls = [f \in Facades |-> << >>]
    /\ request = [f \in Facades |-> None]
    /\ outcome = [f \in Facades |-> NoOutcome]

NextNew == (\E f \in Facades : client_init(f)) \/ Next

\* The clients from their construction on.
SpecNew == InitNew /\ [][NextNew]_vars

-----------------------------------------------------------------------------
(* Two invocations at once on one asynchronous client *)

\* The two tasks that await create_memory_store on the same client; a task
\* runs from one await to the next without the other coming in between.
Tasks == {"task1", "task2"}

\* One client, constructed; both tasks have just called create_memory_store on
\* it, and the backend has neither the project nor the store.
InitRace ==
    /\ backend = Backend({}, {})
    /\ given \in { g \in ConstructorArgs : Truthy(g.project) /\ Truthy(g.memory_store) }
    /\ client = [t \in Tasks |-> Construct(given.config, given.project, given.memory_store)]
    /\ inp \in Invocation("create_memory_store", CreateMemoryStoreArgs)
    /\ script = << >>
    /\ pc = [t \in Tasks |-> "start"]
    /\ calls = [t \in Tasks |-> << >>]
    /\ request = [t \in Tasks |-> None]
    /\ outcome = [t \in Tasks |-> NoOutcome]

NextRace ==
    \E t \in Tasks :
        \/ create_memory_store(t)
        \/ create_memory_store_except(t)
        \/ create_memory_store_retry(t)
        \/ create_memory_store_return(t)

SpecRace == InitRace /\ [][NextRace]_vars

TypeOK ==
    /\ inp \in Inputs
    /\ \A f \in Facades :
        /\ pc[f] \in {"start", "await", "create_memory_store_try", "create_project",
                      "create_memory_store_retry", "done"}
        /\ Len(calls[f]) <= Len(script) + 1
        /\ outcome[f].kind \in {"none", "return", "raise"}
        /\ (pc[f] = "done") = (outcome[f].kind # "none")

-----------------------------------------------------------------------------
(* Properties of create_memory_store *)

\* How many calls of `api` facade f has issued in this invocation.
CountCalls(f, api) ==
    Cardinality({ i \in 1..Len(calls[f]) : calls[f][i].api = api })

\* Facade f has received the backend's reply to its k-th call.
Received(f, k) == k < Len(calls[f]) \/ (k = Len(calls[f]) /\ pc[f] = "done")

\* The mapping the status-only operations return for reply r.
StatusOf(r) ==
    [t |-> "dict", v |-> [status_code |-> r.status_code, headers |-> r.headers]]

\* The first create_memory_store call of this invocation failed, and str(e)
\* has the project-not-exist marker in it.
FirstFailedProjectNotExist ==
    /\ inp.op = "create_memory_store"
    /\ Len(script) >= 1
    /\ ~script[1].ok
    /\ Contains(script[1].error.text, <<"Project", "Not", "Exist">>)

\* C1: when the first create_memory_store call succeeds, the invocation issues
\* that one backend call only, never create_project, and returns the
\* status_code and headers of that response.
C1_FirstSuccessNoProject ==
    \A f \in Facades :
        (inp.op = "create_memory_store" /\ Len(script) >= 1 /\ script[1].ok)
        => /\ CountCalls(f, "create_project") = 0
           /\ CountCalls(f, "create_memory_store") <= 1
           /\ Received(f, 1) =>
                 /\ pc[f] = "done"
                 /\ Len(calls[f]) = 1
                 /\ calls[f][1].api = "create_memory_store"
                 /\ outcome[f] = Returned(StatusOf(script[1]))

C1_Witness ==
    \A f \in Facades :
        /\ inp.op = "create_memory_store"
        /\ pc[f] = "done"
        /\ script[1].ok
        /\ outcome[f].kind = "return"
        /\ outcome[f].value.v.status_code = Num(201)

\* C2 as stated: after a first failure with the project-not-exist marker, the
\* finished invocation has called create_project once, after the failed call,
\* and then create_memory_store once more with the same request, whatever
\* create_project replied.
C2_AlwaysRetried ==
    \A f \in Facades :
        (FirstFailedProjectNotExist /\ pc[f] = "done")
        => /\ Len(calls[f]) = 3
           /\ calls[f][1].api = "create_memory_store"
           /\ calls[f][2].api = "create_project"
           /\ calls[f][3].api = "create_memory_store"
           /\ calls[f][3].args = calls[f][1].args
           /\ script[3].ok => outcome[f] = Returned(StatusOf(script[3]))

\* C2, amended: after a first failure with the project-not-exist marker,
\* create_project is called exactly once, for the bound project and right after
\* the failed call; if create_project succeeds, create_memory_store is called
\* exactly once more, with the same project and request, and a successful retry's
\* status_code and headers are returned; if create_project fails there is no retry.
C2_RecoveryPath ==
    \A f \in Facades :
        (FirstFailedProjectNotExist /\ Received(f, 1))
        => /\ Len(calls[f]) \in 2..3
           /\ calls[f][1].api = "create_memory_store"
           /\ calls[f][2].api = "create_project"
           /\ calls[f][2].args =
                  <<[project_name |-> client[f].project,
                     description |-> Str("Auto-created by SLS Memory SDK")]>>
           /\ CountCalls(f, "create_project") = 1
           /\ Received(f, 2) =>
                 IF script[2].ok
                 THEN /\ Len(calls[f]) = 3
                      /\ calls[f][3].api = "create_memory_store"
                      /\ calls[f][3].args = calls[f][1].args
                      /\ calls[f][3].args[1] = client[f].project
                      /\ CountCalls(f, "create_memory_store") = 2
                      /\ (Received(f, 3) /\ script[3].ok)
                            => outcome[f] = Returned(StatusOf(script[3]))
                 ELSE /\ Len(calls[f]) = 2
                      /\ pc[f] = "done"

C2_Witness ==
    \A f \in Facades :
        /\ FirstFailedProjectNotExist
        /\ Len(script[1].error.text) > 3
        /\ pc[f] = "done"
        /\ Len(calls[f]) = 3
        /\ outcome[f].kind = "return"

\* C3: when the first create_memory_store call fails with an error whose text
\* has no project-not-exist marker, create_project is never called, the store
\* call is not made again, and that first error is what the caller gets.
C3_OtherErrorPropagates ==
    \A f \in Facades :
        ( /\ inp.op = "create_memory_store"
          /\ Len(script) >= 1
          /\ ~script[1].ok
          /\ ~Contains(script[1].error.text, <<"Project", "Not", "Exist">>)
          /\ Received(f, 1) )
        => /\ pc[f] = "done"
           /\ Len(calls[f]) = 1
           /\ calls[f][1].api = "create_memory_store"
           /\ outcome[f] = Raised(script[1].error)

C3_Witness ==
    \A f \in Facades :
        /\ inp.op = "create_memory_store"
        /\ pc[f] = "done"
        /\ ~script[1].ok
        /\ script[1].error.text = <<"Not", "Exist", "Project">>
        /\ outcome[f].kind = "raise"

\* C4: inside the recovery path the first failing call ends the invocation with
\* that call's error and nothing is called after it (a failed create_project
\* means no retry, a failed retry means no second create_project, even when it
\* is project-not-exist again); an invocation makes at most two
\* create_memory_store calls and one create_project call, and while it has not
\* finished it can always take its next step, so it terminates.
C4_RecoveryFailsFast ==
    \A f \in Facades :
        inp.op = "create_memory_store"
        => /\ CountCalls(f, "create_memory_store") <= 2
           /\ CountCalls(f, "create_project") <= 1
           /\ Len(calls[f]) <= 3
           /\ \A k \in 2..Len(calls[f]) :
                 (Received(f, k) /\ ~script[k].ok)
                 => /\ pc[f] = "done"
                    /\ Len(calls[f]) = k
                    /\ outcome[f] = Raised(script[k].error)
           /\ pc[f] # "done" => ENABLED Step(f)

C4_Witness ==
    \A f \in Facades :
        /\ inp.op = "create_memory_store"
        /\ pc[f] = "done"
        /\ Len(calls[f]) = 3
        /\ ~script[3].ok
        /\ Contains(script[3].error.text, <<"Project", "Not", "Exist">>)
        /\ outcome[f] = Raised(script[3].error)

-----------------------------------------------------------------------------
(* Properties of local validation *)

\* The memory_id argument is missing: None or the empty string.
NoMemoryId == inp.a.memory_id = None \/ inp.a.memory_id = Str("")

\* C5: get, update, delete and history given an empty or None memory_id raise
\* a ValidationError, and no backend call is ever issued for the invocation,
\* in either facade and whatever the other arguments are.
C5_MemoryIdRequired ==
    \A f \in Facades :
        (inp.op \in {"get", "update", "delete", "history"} /\ NoMemoryId)
        => /\ calls[f] = << >>
           /\ pc[f] \in {"start", "done"}
           /\ pc[f] = "done" =>
                 /\ outcome[f].kind = "raise"
                 /\ outcome[f].error.type = "ValidationError"

C5_Witness ==
    \A f \in Facades :
        /\ inp.op = "delete"
        /\ inp.a.memory_id = None
        /\ pc[f] = "done"
        /\ outcome[f].kind = "raise"

\* C6: update with a non-empty memory_id raises a ValidationError without a
\* backend call exactly when text and metadata are both None; otherwise (an
\* empty text or an empty metadata mapping included) it issues one update_memory
\* call with the bound project and store, the memory_id and the given text and
\* metadata, and returns the response's status_code and headers.
C6_UpdateNeedsTextOrMetadata ==
    \A f \in Facades :
        (inp.op = "update" /\ ~NoMemoryId /\ pc[f] # "start")
        => IF inp.a.text = None /\ inp.a.metadata = None
           THEN /\ calls[f] = << >>
                /\ outcome[f].kind = "raise"
                /\ outcome[f].error.type = "ValidationError"
           ELSE /\ Len(calls[f]) = 1
                /\ calls[f][1].api = "update_memory"
                /\ calls[f][1].args =
                       <<client[f].project, client[f].memory_store, inp.a.memory_id,
                         [text |-> inp.a.text, metadata |-> inp.a.metadata]>>
                /\ outcome[f].kind # "raise" \/ outcome[f].error.type # "ValidationError"
                /\ (pc[f] = "done" /\ script[1].ok)
                      => outcome[f] = Returned(StatusOf(script[1]))

C6_Witness ==
    \A f \in Facades :
        /\ inp.op = "update"
        /\ inp.a.memory_id = Str("m1")
        /\ inp.a.text = Str("")
        /\ inp.a.metadata = None
        /\ pc[f] = "done"
        /\ Len(calls[f]) = 1
        /\ outcome[f].kind = "return"

\* C7: search given an empty or None query raises a ValidationError, and no
\* backend call is ever issued for the invocation, in either facade.
C7_QueryRequired ==
    \A f \in Facades :
        (inp.op = "search" /\ (inp.a.query = None \/ inp.a.query = Str("")))
        => /\ calls[f] = << >>
           /\ pc[f] \in {"start", "done"}
           /\ pc[f] = "done" =>
                 /\ outcome[f].kind = "raise"
                 /\ outcome[f].error.type = "ValidationError"

C7_Witness ==
    \A f \in Facades :
        /\ inp.op = "search"
        /\ inp.a.query = Str("")
        /\ inp.a.user_id # None
        /\ pc[f] = "done"
        /\ outcome[f].kind = "raise"

-----------------------------------------------------------------------------
(* Properties of the results of get_all and search *)

\* The plain mapping an entry of a results list flattens to.
Flat(entry) ==
    IF entry = None
    THEN [t |-> "dict", v |-> EmptyMap]
    ELSE [t |-> "dict", v |-> entry.v]

\* The results list of the backend's reply, << >> when the body, or its
\* results field, is absent.
BackendResults ==
    IF script[1].body = None THEN << >>
    ELSE IF script[1].body.v.results = None THEN << >>
    ELSE script[1].body.v.results.v

\* C8: what get_all and search return is a mapping with the one key "results",
\* whose value is a list: empty when the response has no body, no results field
\* or an empty results list, and otherwise as long as the backend's list, in its
\* order, each entry the flattened mapping of the backend's entry.
C8_ResultsAlwaysSequence ==
    \A f \in Facades :
        (inp.op \in {"get_all", "search"} /\ outcome[f].kind = "return")
        => LET val == outcome[f].value
           IN  /\ val.t = "dict"
               /\ DOMAIN val.v = {"results"}
               /\ val.v.results.t = "list"
               /\ Len(val.v.results.v) = Len(BackendResults)
               /\ \A i \in 1..Len(BackendResults) :
                     val.v.results.v[i] = Flat(BackendResults[i])

C8_Witness ==
    \A f \in Facades :
        /\ inp.op = "search"
        /\ outcome[f].kind = "return"
        /\ Len(BackendResults) = 2
        /\ BackendResults[1].t = "dict"
        /\ BackendResults[2].t = "model"
        /\ Len(outcome[f].value.v.results.v) = 2

-----------------------------------------------------------------------------
(* Properties of the two facades side by side *)

\* The operations both facades have.
Operations ==
    {"add", "get", "get_all", "search", "update", "delete", "delete_all", "history",
     "create_memory_store", "describe_memory_store", "update_memory_store",
     "delete_memory_store"}

\* The backend operations facade f has issued, without the scheduling mode.
BackendOps(f) ==
    [i \in 1..Len(calls[f]) |-> [api |-> calls[f][i].api, args |-> calls[f][i].args]]

\* C9: given the same invocation and the same backend replies, the two facades
\* issue the same backend operations with the same request fields and end with
\* the same result or the same error.
C9_FacadesEquivalent ==
    (inp.op \in Operations /\ \A f \in Facades : pc[f] = "done")
    => /\ BackendOps("sync") = BackendOps("async")
       /\ outcome["sync"] = outcome["async"]

\* The custom_instructions the caller gave to add, None when not given.
GivenCustomInstructions ==
    IF inp.a.custom_instructions = Absent THEN None ELSE inp.a.custom_instructions

\* C10: add, in either facade, given messages it can normalize, issues one
\* add_memories call whose request carries the normalized messages and every
\* argument as given, custom_instructions included.
C10_AddForwardsEveryField ==
    \A f \in Facades :
        (inp.op = "add" /\ prepare_messages(inp.a.messages).ok /\ pc[f] # "start")
        => /\ Len(calls[f]) = 1
           /\ calls[f][1].api = "add_memories"
           /\ calls[f][1].args[1] = client[f].project
           /\ calls[f][1].args[2] = client[f].memory_store
           /\ calls[f][1].args[3] =
                  [messages |-> prepare_messages(inp.a.messages).value,
                   user_id |-> inp.a.user_id, agent_id |-> inp.a.agent_id,
                   app_id |-> inp.a.app_id, run_id |-> inp.a.run_id,
                   metadata |-> inp.a.metadata, infer |-> inp.a.infer,
                   custom_instructions |-> GivenCustomInstructions,
                   async_mode |-> inp.a.async_mode]

-----------------------------------------------------------------------------
(* Properties of the Input Normalizer *)

\* The messages of the add_memories request facade f has sent.
SentMessages(f) == calls[f][1].args[3].messages

\* C11: a string, the empty one included, is normalized to exactly one message
\* of role "user" whose content is the string itself; an add call that goes
\* out carries that one message.
C11_StringIsOneUserMessage ==
    (inp.op = "add" /\ inp.a.messages.t = "str")
    => /\ prepare_messages(inp.a.messages)
            = Ok(<<[role |-> Str("user"), content |-> inp.a.messages]>>)
       /\ \A f \in Facades :
            calls[f] # << >>
            => SentMessages(f) = <<[role |-> Str("user"), content |-> inp.a.messages]>>

C11_Witness ==
    /\ inp.op = "add"
    /\ inp.a.messages = Str("")
    /\ \A f \in Facades :
        /\ pc[f] = "done"
        /\ Len(calls[f]) = 1
        /\ SentMessages(f) = <<[role |-> Str("user"), content |-> Str("")]>>

\* The mappings an add invocation gives: the mapping alone, or the elements.
GivenMappings ==
    IF inp.a.messages.t = "dict" THEN <<inp.a.messages>> ELSE inp.a.messages.v

\* messages is a mapping or a sequence of mappings.
OnlyMappings ==
    /\ inp.op = "add"
    /\ inp.a.messages.t \in {"dict", "list"}
    /\ \A i \in 1..Len(GivenMappings) : GivenMappings[i].t = "dict"

\* C12: a mapping, alone or as an element, becomes a message whose role is its
\* "role" value when it has one and "user" otherwise, and whose content is its
\* "content" value when it has one and "" otherwise; a mapping alone is
\* normalized exactly like the one-element sequence holding it.
C12_MappingDefaults ==
    OnlyMappings
    => /\ prepare_messages(inp.a.messages).ok
       /\ Len(prepare_messages(inp.a.messages).value) = Len(GivenMappings)
       /\ \A i \in 1..Len(GivenMappings) :
            LET m == GivenMappings[i].v
                message == prepare_messages(inp.a.messages).value[i]
            IN  /\ message.role = IF "role" \in DOMAIN m THEN m.role ELSE Str("user")
                /\ message.content
                       = IF "content" \in DOMAIN m THEN m.content ELSE Str("")
       /\ inp.a.messages.t = "dict"
            => prepare_messages(inp.a.messages)
                  = prepare_messages(List(<<inp.a.messages>>))
       /\ \A f \in Facades :
            calls[f] # << >>
            => SentMessages(f) = prepare_messages(List(GivenMappings)).value

C12_Witness ==
    /\ inp.op = "add"
    /\ inp.a.messages = Message2
    /\ \A f \in Facades :
        /\ pc[f] = "done"
        /\ Len(calls[f]) = 1
        /\ SentMessages(f) = <<[role |-> Str("user"), content |-> Str("no role")]>>

\* C13: a sequence of mappings is normalized to a list of the same length whose
\* i-th message is the one the i-th mapping gives alone: order and count are
\* kept, duplicates stay, and the empty sequence gives the empty list.
C13_SequenceKeepsOrderAndCount ==
    (OnlyMappings /\ inp.a.messages.t = "list")
    => /\ prepare_messages(inp.a.messages).ok
       /\ Len(prepare_messages(inp.a.messages).value) = Len(inp.a.messages.v)
       /\ \A i \in 1..Len(inp.a.messages.v) :
            <<prepare_messages(inp.a.messages).value[i]>>
               = prepare_messages(inp.a.messages.v[i]).value
       /\ \A f \in Facades :
            calls[f] # << >>
            => /\ Len(SentMessages(f)) = Len(inp.a.messages.v)
               /\ \A i \in 1..Len(inp.a.messages.v) :
                    <<SentMessages(f)[i]>> = prepare_messages(inp.a.messages.v[i]).value

C13_Witness ==
    /\ inp.op = "add"
    /\ inp.a.messages = List(<<Message1, Message2>>)
    /\ \A f \in Facades :
        /\ pc[f] = "done"
        /\ Len(calls[f]) = 1
        /\ SentMessages(f)
              = <<[role |-> Str("assistant"), content |-> Str("hello")],
                  [role |-> Str("user"), content |-> Str("no role")]>>

\* C14: add given messages that are neither a string, a mapping nor a sequence
\* ends, in either facade, with a ValidationError and without any backend call.
C14_OtherMessagesRejected ==
    \A f \in Facades :
        (inp.op = "add" /\ inp.a.messages.t \notin {"str", "dict", "list"}
            /\ pc[f] # "start")
        => /\ pc[f] = "done"
           /\ outcome[f].kind = "raise"
           /\ outcome[f].error.type = "ValidationError"
           /\ calls[f] = << >>

\* The call binds to the parameters add has in facade f.
Binds(f) == f = "async" \/ inp.a.custom_instructions = Absent

\* The same for the invocations that bind to the parameters of add.
C14_WhenBound ==
    \A f \in Facades :
        (inp.op = "add" /\ inp.a.messages.t \notin {"str", "dict", "list"}
            /\ Binds(f) /\ pc[f] # "start")
        => /\ pc[f] = "done"
           /\ outcome[f].kind = "raise"
           /\ outcome[f].error.type = "ValidationError"
           /\ calls[f] = << >>

\* C20: add given a sequence with an element that is not a mapping ends with
\* a ValidationError and without any backend call.
C20_NonMappingElementRejected ==
    \A f \in Facades :
        (inp.op = "add" /\ inp.a.messages.t = "list" /\ ~OnlyMappings
            /\ Binds(f) /\ pc[f] # "start")
        => /\ pc[f] = "done"
           /\ outcome[f].kind = "raise"
           /\ outcome[f].error.type = "ValidationError"
           /\ calls[f] = << >>

-----------------------------------------------------------------------------
(* Properties of the Result Flattener on the single-body operations *)

\* Facade f got a response, not an error, to the one call of its operation.
GotResponse(f) ==
    /\ inp.op # "create_memory_store"
    /\ pc[f] = "done"
    /\ Len(calls[f]) = 1
    /\ script[1].ok

\* What the operation returns when the response brings nothing to flatten.
EmptyResult(op) ==
    CASE op = "add" -> [t |-> "dict", v |-> [results |-> [t |-> "list", v |-> << >>]]]
      [] op \in {"get", "describe_memory_store"} -> [t |-> "dict", v |-> EmptyMap]
      [] op = "history" -> [t |-> "list", v |-> << >>]

\* A response never makes an operation raise or return None.
NeverRaisesNorNone(f) ==
    GotResponse(f) => (outcome[f].kind = "return" /\ outcome[f].value # None)

\* C15 as stated: a response never makes an operation raise or return None;
\* without a body add returns {"results": []}, get and describe_memory_store
\* {} and history []; with a body, whatever it is, add, get and
\* describe_memory_store return its flattened mapping.
C15_BodyPresentVerbatim ==
    \A f \in Facades :
        /\ NeverRaisesNorNone(f)
        /\ (GotResponse(f) /\ script[1].body = None
                /\ inp.op \in {"add", "get", "describe_memory_store", "history"})
           => outcome[f].value = EmptyResult(inp.op)
        /\ (GotResponse(f) /\ script[1].body # None
                /\ inp.op \in {"add", "get", "describe_memory_store"})
           => outcome[f].value = Flat(script[1].body)

\* C15, amended: a response never makes an operation raise or return None;
\* without a body, or with an empty one, add returns {"results": []}, get and
\* describe_memory_store {} and history []; with a non-empty body add, get and
\* describe_memory_store return its flattened mapping.
C15_NonEmptyBodyVerbatim ==
    \A f \in Facades :
        /\ NeverRaisesNorNone(f)
        /\ (GotResponse(f) /\ ~Truthy(script[1].body)
                /\ inp.op \in {"add", "get", "describe_memory_store", "history"})
           => outcome[f].value = EmptyResult(inp.op)
        /\ (GotResponse(f) /\ Truthy(script[1].body)
                /\ inp.op \in {"add", "get", "describe_memory_store"})
           => outcome[f].value = Flat(script[1].body)

C15_Witness ==
    /\ inp.op = "add"
    /\ \A f \in Facades :
        /\ GotResponse(f)
        /\ script[1].body = None
        /\ outcome[f].kind = "return"
        /\ outcome[f].value.v.results.v = << >>

-----------------------------------------------------------------------------
(* Properties of the pass-through operations *)

\* The backend operation each pass-through operation stands for.
ApiOf(op) ==
    CASE op = "add" -> "add_memories"
      [] op = "get" -> "get_memory"
      [] op = "get_all" -> "get_memories"
      [] op = "search" -> "search_memories"
      [] op = "update" -> "update_memory"
      [] op = "delete" -> "delete_memory"
      [] op = "delete_all" -> "delete_memories"
      [] op = "history" -> "get_memory_history"
      [] op = "describe_memory_store" -> "get_memory_store"
      [] op = "update_memory_store" -> "update_memory_store"
      [] op = "delete_memory_store" -> "delete_memory_store"

\* The arguments of the invocation get through the local checks of its
\* operation: none of them is turned away.
PassesLocalValidation ==
    CASE inp.op = "add" ->
             /\ inp.a.messages.t \in {"str", "dict", "list"}
             /\ inp.a.messages.t = "list"
                  => \A i \in 1..Len(inp.a.messages.v) : inp.a.messages.v[i].t = "dict"
      [] inp.op \in {"get", "delete", "history"} -> ~NoMemoryId
      [] inp.op = "update" ->
             ~NoMemoryId /\ (inp.a.text # None \/ inp.a.metadata # None)
      [] inp.op = "search" -> inp.a.query \notin {None, Str("")}
      [] OTHER -> TRUE

\* Facade f has run an operation other than create_memory_store up to its
\* backend call: one call, the one the operation stands for, and when it has
\* failed the backend's error as it is, no second call and no result.
OneCallErrorUnmodified(f) ==
    /\ Len(calls[f]) = 1
    /\ calls[f][1].api = ApiOf(inp.op)
    /\ (pc[f] = "done" /\ ~script[1].ok)
         => outcome[f] = [kind |-> "raise", value |-> None, error |-> script[1].error]

\* C18: an operation other than create_memory_store whose invocation passes
\* the local checks issues exactly one backend call, the one it stands for;
\* when that call fails the invocation ends with the backend's error as it
\* is, without a second call and without a result.
C18_OneCallErrorUnmodified ==
    \A f \in Facades :
        (inp.op \in Operations \ {"create_memory_store"} /\ PassesLocalValidation
            /\ pc[f] # "start")
        => OneCallErrorUnmodified(f)

\* The same for the invocations that bind to the parameters of the method.
C18_WhenBound ==
    \A f \in Facades :
        (inp.op \in Operations \ {"create_memory_store"} /\ PassesLocalValidation
            /\ pc[f] # "start" /\ (inp.op = "add" => Binds(f)))
        => OneCallErrorUnmodified(f)

-----------------------------------------------------------------------------
(* Properties of the construction *)

\* The constructor was given a project and a memory_store that are not empty.
GivenBoth ==
    /\ given.project \notin {None, Str("")}
    /\ given.memory_store \notin {None, Str("")}

\* C16: the constructor of either client, given an empty or None project or
\* memory_store, raises a ValidationError and no backend handle has been
\* made; given both non-empty it succeeds and the client holds exactly the
\* project and memory_store it was given.
C16_ConstructionValidates ==
    \A f \in Facades :
        pc[f] # "new"
        => IF GivenBoth
           THEN /\ pc[f] # "no client"
                /\ client[f].project = given.project
                /\ client[f].memory_store = given.memory_store
                /\ client[f].sls_client # Absent
           ELSE /\ pc[f] = "no client"
                /\ outcome[f].kind = "raise"
                /\ outcome[f].error.type = "ValidationError"
                /\ client[f].sls_client = Absent
                /\ calls[f] = << >>

C16_Witness ==
    /\ given.project = Str("proj-a")
    /\ given.memory_store = Str("")
    /\ \A f \in Facades :
        /\ pc[f] = "no client"
        /\ outcome[f].error = [type |-> "ValidationError", text |-> <<"memory_store is required">>]
        /\ client[f].sls_client = Absent

\* The k-th backend call of facade f names the project, and the memory store
\* where the backend operation takes one, that the constructor was given.
CarriesContext(f, k) ==
    LET call == calls[f][k]
    IN  CASE call.api = "create_project" ->
                 call.args[1].project_name = given.project
          [] call.api = "create_memory_store" ->
                 /\ call.args[1] = given.project
                 /\ call.args[2].name = given.memory_store
          [] OTHER ->
                 /\ call.args[1] = given.project
                 /\ call.args[2] = given.memory_store

\* C17: whatever operations have run on a constructed client, its project and
\* memory_store are the non-empty values the constructor was given, and every
\* backend call it has issued carries that project and, where the backend
\* operation takes one, that memory_store: create_memory_store names the store
\* after the memory_store and create_project names the project after the project.
C17_ContextFixed ==
    \A f \in Facades :
        pc[f] \notin {"new", "no client"}
        => /\ GivenBoth
           /\ client[f].project = given.project
           /\ client[f].memory_store = given.memory_store
           /\ \A k \in 1..Len(calls[f]) : CarriesContext(f, k)

C17_Witness ==
    /\ inp.op = "create_memory_store"
    /\ \A f \in Facades :
        /\ pc[f] = "done"
        /\ Len(calls[f]) = 3
        /\ calls[f][2].args[1].project_name = Str("proj-a")
        /\ calls[f][3].args[2].name = Str("store-a")
        /\ client[f].project = Str("proj-a")

-----------------------------------------------------------------------------
(* Properties of the asynchronous context manager *)

\* C19: on the asynchronous client __aenter__ returns the client itself and
\* __aexit__ returns None, so an exception that left the scope is not
\* suppressed; neither issues a backend call nor changes the client, which is
\* as usable afterwards as it was after its construction.
C19_ScopeIsTransparent ==
    (inp.op \in {"aenter", "aexit"} /\ pc["async"] = "done")
    => /\ calls["async"] = << >>
       /\ script = << >>
       /\ client["async"]
             = [sls_client |-> [t |-> "SLSClient", config |-> given.config],
                project |-> given.project, memory_store |-> given.memory_store]
       /\ outcome["async"].kind = "return"
       /\ inp.op = "aenter" => outcome["async"].value = [t |-> "client", v |-> "async"]
       /\ inp.op = "aexit" => outcome["async"].value = None
       /\ pc["sync"] = "done" => ENABLED next_invocation

C19_Witness ==
    /\ inp.op = "aexit"
    /\ inp.a.exc_type = Str("RuntimeError")
    /\ pc["async"] = "done"
    /\ outcome["async"] = [kind |-> "return", value |-> None, error |-> None]
    /\ client["async"].sls_client # None

-----------------------------------------------------------------------------
(* Properties of the scoping identifiers of delete_all and get_all *)

\* None of user_id, agent_id, app_id, run_id is given.
Unscoped ==
    /\ inp.a.user_id = None
    /\ inp.a.agent_id = None
    /\ inp.a.app_id = None
    /\ inp.a.run_id = None

\* C22: delete_all and get_all check nothing locally: whatever identifiers are
\* given, all four absent included, each facade issues exactly one backend
\* call (delete_memories / get_memories) whose request has each of user_id,
\* agent_id, app_id and run_id as given, absent where it was absent, so an
\* unscoped delete_all goes out with every filter absent.
C22_ScopeForwardedUnchecked ==
    \A f \in Facades :
        (inp.op \in {"delete_all", "get_all"} /\ pc[f] # "start")
        => /\ Len(calls[f]) = 1
           /\ calls[f][1].api
                 = IF inp.op = "delete_all" THEN "delete_memories" ELSE "get_memories"
           /\ calls[f][1].args[3].user_id = inp.a.user_id
           /\ calls[f][1].args[3].agent_id = inp.a.agent_id
           /\ calls[f][1].args[3].app_id = inp.a.app_id
           /\ calls[f][1].args[3].run_id = inp.a.run_id
           /\ (pc[f] = "done" /\ script[1].ok) => outcome[f].kind = "return"

C22_Witness ==
    /\ inp.op = "delete_all"
    /\ Unscoped
    /\ \A f \in Facades :
        /\ pc[f] = "done"
        /\ Len(calls[f]) = 1
        /\ calls[f][1].api = "delete_memories"
        /\ calls[f][1].args[3]
              = [user_id |-> None, agent_id |-> None, app_id |-> None, run_id |-> None]
        /\ outcome[f].kind = "return"

-----------------------------------------------------------------------------
(* Properties of two create_memory_store invocations at once *)

\* The project and the store of the client exist in the backend.
ProjectAndStoreExist ==
    /\ given.project \in backend.projects
    /\ <<given.project, given.memory_store>> \in backend.stores

\* Task t has ended with the backend's duplicate error, as it is: the
\* project's after its create_project call, the store's after a
\* create_memory_store call.
LostTheRace(t) ==
    /\ outcome[t].kind = "raise"
    /\ outcome[t].error
          = IF calls[t][Len(calls[t])].api = "create_project"
            THEN [type |-> "BackendError", text |-> <<"Project", "Already", "Exist">>]
            ELSE [type |-> "BackendError",
                  text |-> <<"Memory", "Store", "Already", "Exist">>]

\* C21: two create_memory_store invocations at once on one asynchronous
\* client, against a backend that has neither the project nor the store: in
\* every interleaving each issues at most two create_memory_store calls and
\* one create_project call and is never stuck; only the one whose
\* create_project succeeded goes on to the retry; one that does not return
\* ends with the backend's duplicate error as it is; and when both have
\* ended at least one has returned and the project and the store exist.
C21_RaceProvisionsOnce ==
    /\ \A t \in Tasks :
        /\ CountCalls(t, "create_memory_store") <= 2
        /\ CountCalls(t, "create_project") <= 1
        /\ pc[t] # "done"
             => ENABLED (\/ create_memory_store(t)
                         \/ create_memory_store_except(t)
                         \/ create_memory_store_retry(t)
                         \/ create_memory_store_return(t))
        /\ pc[t] = "done" => (outcome[t].kind = "return" \/ LostTheRace(t))
        /\ outcome[t].kind = "return" => outcome[t].value = StatusOf(Response(Num(200), Headers1, None))
    /\ Cardinality({ t \in Tasks : CountCalls(t, "create_memory_store") = 2 }) <= 1
    /\ (\A t \in Tasks : pc[t] = "done")
         => /\ \E t \in Tasks : outcome[t].kind = "return"
            /\ ProjectAndStoreExist

\* Both tasks found the project missing; one created it and its retry
\* created the store, the other ended with the project's duplicate error.
C21_Witness ==
    /\ backend.stateful
    /\ ProjectAndStoreExist
    /\ pc["task1"] = "done" /\ pc["task2"] = "done"
    /\ outcome["task1"].kind = "return"
    /\ Len(calls["task1"]) = 3
    /\ Len(calls["task2"]) = 2
    /\ outcome["task2"].error.text = <<"Project", "Already", "Exist">>

====
